---- MODULE Spec2Model ----
(***************************************************************************)
(* A model of basstrace's renderer (src/src/renderer.rs) and scene         *)
(* (src/src/scene.rs).                                                     *)
(*                                                                         *)
(* Renderer: worker threads run run_render_loop, other threads call        *)
(* set_frequency and paint.  The two mutexes (params, buffer) are modelled *)
(* by their holder; every loop over the shared buffer is one step per      *)
(* element, and every lock, unlock and read of shared state is a step.     *)
(* A Complex sample is modelled by an integer (only addition and zero are  *)
(* used by the renderer).                                                  *)
(*                                                                         *)
(* Scene: one call of Scene::sample_at, step by step, with every draw of   *)
(* the random stream a free choice; lengths are integers in millimetres.   *)
(***************************************************************************)
EXTENDS Integers, Sequences, FiniteSets, TLC

\* ---------------------------------------------------------------- bounds
\* Loop iterations the workers start, in total (the loop itself is unbounded).
MaxPasses == 2

\* ------------------------------------------------------------- constants
\* RenderParams.frequency_hz set by Renderer::new.
InitFrequency == 440

\* An unlocked mutex has no holder.
NoThread == 0
\* The threads running run_render_loop, those calling set_frequency and
\* those calling paint.
Workers == {1, 2}
Setters == {3}
Painters == {4}
Callers == Setters \cup Painters
Threads == Workers \cup Callers
\* The indices of the buffers (0 .. 1280 * 720 - 1 in Renderer::new), and
\* Renderer::area.
Pixels == {1, 2}
Area == Cardinality(Pixels)

\* The frequencies a caller may pass to set_frequency.
Frequencies == {InitFrequency, 2 * InitFrequency}
\* NoFrequency: a caller that is not inside set_frequency has no argument.
NoFrequency == 0

\* The values Scene::sample_at hands to render_one: zero (outside the room)
\* or a nonzero sample.
SampleValues == {0, 1}

\* Complex::zero().
Zero == 0

\* A buffer one element short of width * height.
ZeroBufferOneShort == [i \in 1..(Area - 1) |-> Zero]
\* iter::repeat(Complex::zero()).take(width * height).collect()
ZeroBuffer == [i \in Pixels |-> Zero]
BlankPixbuf == [i \in Pixels |-> 0]

VARIABLES
    params,       \* Renderer.params: the shared RenderParams.frequency_hz
    buffer,       \* Renderer.buffer: the shared accumulation buffer
    paramsLock,   \* holder of the params mutex, or NoThread
    bufferLock,   \* holder of the buffer mutex, or NoThread
    pc,           \* each thread's position in its code
    idx,          \* each thread's loop index over the buffer
    snapshot,     \* run_render_loop's local `params`, per worker
    local,        \* run_render_loop's local `buffer`, per worker
    passes,       \* loop iterations started by the workers
    arg,          \* set_frequency's argument f_hz, per caller
    exposure,     \* paint's local `exposure`, per caller
    pixbuf,       \* the pixel surface handed to the paint call in progress,
                  \* per caller (blank when the caller is not inside paint)
    contrib,      \* history: the frequencies of the passes with a nonzero
                  \* sample merged into buffer since it was last cleared
    entry,        \* history: buffer and local as accumulate_move found
                  \* them when it took the buffer lock, per worker
    before,       \* history: whether set_frequency stored the frequency
                  \* that was there and whether its clear found every
                  \* element nonzero, per caller inside set_frequency
    written,      \* history: for each element of a worker's local buffer,
                  \* the frequency render_one wrote it for in this
                  \* iteration of the loop (NoFrequency: not written yet)
    stale,        \* history: whether the local buffer still held samples
                  \* of a discarded pass when render_one began, per worker
                  \* inside the call of accumulate_move that follows
    merged,       \* history: the sum of the passes whose merge has
                  \* completed since the last completed clear
    late          \* history: the workers that read RenderParams while a
                  \* set_frequency call was between its store and the
                  \* end of its clear

histVars == <<written, stale, merged, late>>
vars == <<params, buffer, paramsLock, bufferLock, pc, idx, snapshot, local,
          passes, arg, exposure, pixbuf, contrib, entry, before, histVars>>

\* The state of one call of Scene::sample_at.
VARIABLES
    stage,        \* position of the sample_at call in its code
    position,     \* argument position
    frequency,    \* argument frequency
    si,           \* index of the source picked
    fi,           \* index of the face last picked
    p,            \* the point, reflected so far
    amplitude,    \* weight of the next term
    bounce,       \* the loop counter
    z,            \* the sum so far; the value returned once stage = "done"
    fi0,          \* history: the face index drawn before the loop
    used,         \* history: the indices of the faces reflected across
    faces,        \* self.faces, the faces of the scene sampled
    rejected      \* history: the current draw loop has rejected an index

sceneVars == <<stage, position, frequency, si, fi, p, amplitude, bounce, z,
               fi0, used, faces, rejected>>

\* Two runs of a worker's start: Rng::new(seed), then either calls of next()
\* or the first render_one.
VARIABLES
    seed,          \* run_render_loop's argument, the same in both runs
    checks,        \* whether the build panics on integer overflow
    passFrequency, \* the RenderParams both runs render with
    rng,           \* each run's Rng
    drawn,         \* the values each run's calls of next() returned
    pass           \* the samples each run's render_one has written so far

passVars == <<seed, checks, passFrequency, rng, drawn, pass>>
allVars == <<vars, histVars, sceneVars, passVars>>

NoBefore == [same |-> FALSE, full |-> FALSE]

\* ------------------------------------------------------------- f32 values
\* The f32 results paint computes: finite (an integer stands for it),
\* -inf, +inf or NaN.
Fin(n) == [k |-> "fin", v |-> n]
NegInf == [k |-> "-inf", v |-> 0]
PosInf == [k |-> "+inf", v |-> 0]
NaN == [k |-> "nan", v |-> 0]

Abs(n) == IF n < 0 THEN -n ELSE n

RECURSIVE Log10Floor(_)
Log10Floor(n) == IF n < 10 THEN 0 ELSE 1 + Log10Floor(n \div 10)

\* buffer[i].norm().log10(): log10(0) is -inf.
LogNorm(c) == IF c = Zero THEN NegInf ELSE Fin(Log10Floor(Abs(c)))

\* a - b on f32.
FSub(a, b) ==
    CASE a.k = "nan" \/ b.k = "nan" -> NaN
      [] a.k = "fin" /\ b.k = "fin" -> Fin(a.v - b.v)
      [] a.k = "fin" /\ b.k = "-inf" -> PosInf
      [] a.k = "fin" /\ b.k = "+inf" -> NegInf
      [] a.k = b.k -> NaN
      [] OTHER -> a

\* The pixels get_exposure reads: the neighbourhood of the point 1 m in
\* front of each source.
ExposurePixels == {1}

\* get_exposure: the mean of log10 |buffer[i]| over ExposurePixels.
GetExposure(b) ==
    IF \E i \in ExposurePixels : b[i] = Zero
    THEN NegInf
    ELSE Fin(Log10Floor(Abs(b[CHOOSE i \in ExposurePixels : TRUE])))

\* ((0.5 + magnitude * 0.2).max(0.0).min(1.0) * 255.0) as u8
Gray(m) ==
    CASE m.k = "nan" -> 0
      [] m.k = "-inf" -> 0
      [] m.k = "+inf" -> 255
      [] OTHER -> LET rf10 == 5 + 2 * m.v
                      rf == IF rf10 < 0 THEN 0
                            ELSE IF rf10 > 10 THEN 10 ELSE rf10
                  IN (rf * 255) \div 10

\* ------------------------------------------------------------------ Init
RendererInit ==
    /\ params = InitFrequency
    /\ buffer = ZeroBuffer
    /\ paramsLock = NoThread
    /\ bufferLock = NoThread
    /\ pc = [t \in Threads |-> IF t \in Workers THEN "loop" ELSE "idle"]
    /\ idx = [t \in Threads |-> 1]
    /\ snapshot = [w \in Workers |-> InitFrequency]
    /\ local = [w \in Workers |-> ZeroBuffer]
    /\ passes = 0
    /\ arg = [c \in Setters |-> NoFrequency]
    /\ exposure = [c \in Painters |-> NegInf]
    /\ pixbuf = [c \in Painters |-> BlankPixbuf]
    /\ contrib = {}
    /\ entry = [w \in Workers |-> <<ZeroBuffer, ZeroBuffer>>]
    /\ before = [c \in Setters |-> NoBefore]
    /\ written = [w \in Workers |-> [i \in Pixels |-> NoFrequency]]
    /\ stale = [w \in Workers |-> FALSE]
    /\ merged = ZeroBuffer
    /\ late = {}

\* Whether a set_frequency call is between its store and the end of its
\* clear, and the workers recorded as reading RenderParams meanwhile.
Clearing == \E c \in Setters : pc[c] \in {"clear_lock", "clear", "clear_unlock"}
ReadBy(w) == IF Clearing THEN late \cup {w} ELSE late

\* Where a loop over the buffer goes after element idx[t].
AfterElement(t, again, done) ==
    /\ idx' = [idx EXCEPT ![t] = IF idx[t] = Area THEN 1 ELSE idx[t] + 1]
    /\ pc' = [pc EXCEPT ![t] = IF idx[t] = Area THEN done ELSE again]

\* ------------------------------------------------------- run_render_loop
\* self.params.lock() of `let params = self.params.lock().unwrap().clone()`
LoopLockParams(w) ==
    /\ pc[w] = "loop"
    /\ passes < MaxPasses
    /\ paramsLock = NoThread
    /\ paramsLock' = w
    /\ passes' = passes + 1
    /\ pc' = [pc EXCEPT ![w] = "snapshot"]
    /\ UNCHANGED <<params, buffer, bufferLock, idx, snapshot, local, arg,
                   exposure, pixbuf, contrib, entry, before, histVars,
                   sceneVars, passVars>>

\* A snapshot that keeps the guard alive for the whole loop body.
LoopSnapshotKeepingGuard(w) ==
    /\ pc[w] = "snapshot"
    /\ snapshot' = [snapshot EXCEPT ![w] = params]
    /\ pc' = [pc EXCEPT ![w] = "render"]
    /\ written' = [written EXCEPT ![w] = [i \in Pixels |-> NoFrequency]]
    /\ late' = ReadBy(w)
    /\ UNCHANGED <<params, buffer, paramsLock, bufferLock, idx, local, passes,
                   arg, exposure, pixbuf, contrib, entry, before, stale, merged,
                   sceneVars, passVars>>

\* .clone() and the drop of the temporary guard at the end of the statement.
LoopSnapshot(w) ==
    /\ pc[w] = "snapshot"
    /\ snapshot' = [snapshot EXCEPT ![w] = params]
    /\ paramsLock' = NoThread
    /\ pc' = [pc EXCEPT ![w] = "render"]
    /\ written' = [written EXCEPT ![w] = [i \in Pixels |-> NoFrequency]]
    /\ late' = ReadBy(w)
    /\ UNCHANGED <<params, buffer, bufferLock, idx, local, passes, arg,
                   exposure, pixbuf, contrib, entry, before, stale, merged,
                   sceneVars, passVars>>

\* A render_one that leaves the elements outside the room as they were.
RenderOneSkippingZeroes(w) ==
    /\ pc[w] = "render"
    /\ \E s \in [Pixels -> SampleValues] :
          /\ local' = [local EXCEPT ![w] =
                          [i \in Pixels |-> IF s[i] = Zero THEN local[w][i]
                                            ELSE s[i]]]
          /\ written' = [written EXCEPT ![w] =
                            [i \in Pixels |-> IF s[i] = Zero
                                              THEN written[w][i]
                                              ELSE snapshot[w]]]
    /\ stale' = [stale EXCEPT ![w] = (local[w] # ZeroBuffer)]
    /\ pc' = [pc EXCEPT ![w] = "am_lock_params"]
    /\ UNCHANGED <<params, buffer, paramsLock, bufferLock, idx, snapshot,
                   passes, arg, exposure, pixbuf, contrib, entry, before,
                   merged, late, sceneVars, passVars>>

\* render_one: buffer[i] = scene.sample_at(rng, params.frequency_hz, position)
\* for every pixel i.  It touches only the worker's own buffer and stream, so
\* the whole call is one step.
RenderOne(w) ==
    /\ pc[w] = "render"
    /\ \E s \in [Pixels -> SampleValues] :
          local' = [local EXCEPT ![w] = s]
    /\ written' = [written EXCEPT ![w] = [i \in Pixels |-> snapshot[w]]]
    /\ stale' = [stale EXCEPT ![w] = (local[w] # ZeroBuffer)]
    /\ pc' = [pc EXCEPT ![w] = "am_lock_params"]
    /\ UNCHANGED <<params, buffer, paramsLock, bufferLock, idx, snapshot,
                   passes, arg, exposure, pixbuf, contrib, entry, before,
                   merged, late, sceneVars, passVars>>

\* ------------------------------------------------------- accumulate_move
\* assert_eq!(buffer.len(), self.area()); a failed assertion panics and the
\* thread ends.  Then let p = self.params.lock().unwrap();
AmLockParams(w) ==
    /\ pc[w] = "am_lock_params"
    /\ IF Len(local[w]) = Area
       THEN /\ paramsLock = NoThread
            /\ paramsLock' = w
            /\ pc' = [pc EXCEPT ![w] = "am_check"]
       ELSE /\ pc' = [pc EXCEPT ![w] = "panicked"]
            /\ UNCHANGED paramsLock
    /\ UNCHANGED <<params, buffer, bufferLock, idx, snapshot, local, passes,
                   arg, exposure, pixbuf, contrib, entry, before, histVars,
                   sceneVars, passVars>>

\* A discard path that zeroes the caller's buffer before returning.
AmCheckZeroingLocal(w) ==
    /\ pc[w] = "am_check"
    /\ paramsLock' = NoThread
    /\ IF params # snapshot[w]
       THEN /\ pc' = [pc EXCEPT ![w] = "loop"]
            /\ local' = [local EXCEPT ![w] = ZeroBuffer]
       ELSE /\ pc' = [pc EXCEPT ![w] = "am_lock_buffer"]
            /\ UNCHANGED local
    /\ stale' = [stale EXCEPT ![w] = FALSE]
    /\ late' = ReadBy(w)
    /\ UNCHANGED <<params, buffer, bufferLock, idx, snapshot, passes, arg,
                   exposure, pixbuf, contrib, entry, before, written, merged,
                   sceneVars, passVars>>

\* if *p != *params { return }, and the drop of p at the end of the block.
AmCheck(w) ==
    /\ pc[w] = "am_check"
    /\ paramsLock' = NoThread
    /\ pc' = [pc EXCEPT ![w] =
                 IF params # snapshot[w] THEN "loop" ELSE "am_lock_buffer"]
    /\ stale' = [stale EXCEPT ![w] = FALSE]
    /\ late' = ReadBy(w)
    /\ UNCHANGED <<params, buffer, bufferLock, idx, snapshot, local, passes,
                   arg, exposure, pixbuf, contrib, entry, before, written,
                   merged,
                   sceneVars, passVars>>

\* An accumulate_move that never gets hold of the shared buffer.
AmLockBufferNever(w) ==
    /\ pc[w] = "am_lock_buffer"
    /\ bufferLock = NoThread
    /\ FALSE
    /\ UNCHANGED allVars

\* let mut b = self.buffer.lock().unwrap();
\* assert_eq!(b.len(), buffer.len()); the panic of a failed assertion drops
\* the guard.
AmLockBuffer(w) ==
    /\ pc[w] = "am_lock_buffer"
    /\ bufferLock = NoThread
    /\ IF Len(buffer) = Len(local[w])
       THEN /\ bufferLock' = w
            /\ entry' = [entry EXCEPT ![w] = <<buffer, local[w]>>]
            /\ pc' = [pc EXCEPT ![w] = "am_merge"]
       ELSE /\ pc' = [pc EXCEPT ![w] = "panicked"]
            /\ UNCHANGED <<bufferLock, entry>>
    /\ UNCHANGED <<params, buffer, paramsLock, idx, snapshot, local, passes,
                   arg, exposure, pixbuf, contrib, before, histVars,
                   sceneVars, passVars>>

\* A merge that overwrites instead of adding.
AmMergeOverwriting(w) ==
    /\ pc[w] = "am_merge"
    /\ buffer' = [buffer EXCEPT ![idx[w]] = local[w][idx[w]]]
    /\ local' = [local EXCEPT ![w][idx[w]] = Zero]
    /\ AfterElement(w, "am_merge", "am_unlock")
    /\ UNCHANGED <<params, paramsLock, bufferLock, snapshot, passes, arg,
                   exposure, pixbuf, contrib, entry, before, histVars,
                   sceneVars, passVars>>

\* *dst = *dst + *src; *src = Complex::zero();
AmMerge(w) ==
    /\ pc[w] = "am_merge"
    /\ buffer' = [buffer EXCEPT ![idx[w]] = @ + local[w][idx[w]]]
    /\ local' = [local EXCEPT ![w][idx[w]] = Zero]
    /\ AfterElement(w, "am_merge", "am_unlock")
    /\ UNCHANGED <<params, paramsLock, bufferLock, snapshot, passes, arg,
                   exposure, pixbuf, contrib, entry, before, histVars,
                   sceneVars, passVars>>

\* The drop of b when accumulate_move returns.
AmUnlock(w) ==
    /\ pc[w] = "am_unlock"
    /\ bufferLock' = NoThread
    /\ entry' = [entry EXCEPT ![w] = <<ZeroBuffer, ZeroBuffer>>]
    /\ contrib' = IF entry[w][2] = ZeroBuffer THEN contrib
                  ELSE contrib \cup {snapshot[w]}
    /\ merged' = [i \in Pixels |-> merged[i] + entry[w][2][i]]
    /\ pc' = [pc EXCEPT ![w] = "loop"]
    /\ UNCHANGED <<params, buffer, paramsLock, idx, snapshot, local, passes,
                   arg, exposure, pixbuf, before, written, stale, late,
                   sceneVars, passVars>>

\* --------------------------------------------------------- set_frequency
\* let mut p = self.params.lock().unwrap();
SfLockParams(c, f) ==
    /\ pc[c] = "idle"
    /\ paramsLock = NoThread
    /\ paramsLock' = c
    /\ arg' = [arg EXCEPT ![c] = f]
    /\ pc' = [pc EXCEPT ![c] = "sf_store"]
    /\ UNCHANGED <<params, buffer, bufferLock, idx, snapshot, local, passes,
                   exposure, pixbuf, contrib, entry, before, histVars,
                   sceneVars, passVars>>

\* A set_frequency that drops its guard on RenderParams before it clears.
SfStoreDroppingGuard(c) ==
    /\ pc[c] = "sf_store"
    /\ params' = arg[c]
    /\ paramsLock' = NoThread
    /\ pc' = [pc EXCEPT ![c] = "clear_lock"]
    /\ UNCHANGED <<buffer, bufferLock, idx, snapshot, local, passes, arg,
                   exposure, pixbuf, contrib, entry, histVars, sceneVars,
                   passVars>>
    /\ before' = [before EXCEPT ![c].same = (params = arg[c])]

\* p.frequency_hz = f_hz;
SfStore(c) ==
    /\ pc[c] = "sf_store"
    /\ params' = arg[c]
    /\ pc' = [pc EXCEPT ![c] = "clear_lock"]
    /\ UNCHANGED <<buffer, paramsLock, bufferLock, idx, snapshot, local,
                   passes, arg, exposure, pixbuf, contrib, entry, histVars,
                   sceneVars, passVars>>
    /\ before' = [before EXCEPT ![c].same = (params = arg[c])]

\* clear: let mut b = self.buffer.lock().unwrap();
ClearLock(c) ==
    /\ pc[c] = "clear_lock"
    /\ bufferLock = NoThread
    /\ bufferLock' = c
    /\ pc' = [pc EXCEPT ![c] = "clear"]
    /\ UNCHANGED <<params, buffer, paramsLock, idx, snapshot, local, passes,
                   arg, exposure, pixbuf, contrib, entry, histVars,
                   sceneVars, passVars>>
    /\ before' = [before EXCEPT ![c].full =
                     \A i \in Pixels : buffer[i] # Zero]

\* A clear that stops one element short.
ClearElementSkippingLast(c) ==
    /\ pc[c] = "clear"
    /\ IF idx[c] = Area
       THEN UNCHANGED buffer
       ELSE buffer' = [buffer EXCEPT ![idx[c]] = Zero]
    /\ AfterElement(c, "clear", "clear_unlock")
    /\ UNCHANGED <<params, paramsLock, bufferLock, snapshot, local, passes,
                   arg, exposure, pixbuf, contrib, entry, before, histVars,
                   sceneVars, passVars>>

\* clear: *z = Complex::zero();
ClearElement(c) ==
    /\ pc[c] = "clear"
    /\ buffer' = [buffer EXCEPT ![idx[c]] = Zero]
    /\ AfterElement(c, "clear", "clear_unlock")
    /\ UNCHANGED <<params, paramsLock, bufferLock, snapshot, local, passes,
                   arg, exposure, pixbuf, contrib, entry, before, histVars,
                   sceneVars, passVars>>

\* clear: the drop of b when clear returns.
ClearUnlock(c) ==
    /\ pc[c] = "clear_unlock"
    /\ bufferLock' = NoThread
    /\ contrib' = {}
    /\ merged' = ZeroBuffer
    /\ pc' = [pc EXCEPT ![c] = "sf_unlock"]
    /\ UNCHANGED <<params, buffer, paramsLock, idx, snapshot, local, passes,
                   arg, exposure, pixbuf, entry, before, written, stale, late,
                   sceneVars, passVars>>

\* The drop of p when set_frequency returns.
SfUnlock(c) ==
    /\ pc[c] = "sf_unlock"
    /\ paramsLock' = NoThread
    /\ arg' = [arg EXCEPT ![c] = NoFrequency]
    /\ pc' = [pc EXCEPT ![c] = "idle"]
    /\ UNCHANGED <<params, buffer, bufferLock, idx, snapshot, local, passes,
                   exposure, pixbuf, contrib, entry, histVars,
                   sceneVars, passVars>>
    /\ before' = [before EXCEPT ![c] = NoBefore]

\* ----------------------------------------------------------------- paint
\* A paint that reads the buffer without taking its lock.
PaintLockNotLocking(c) ==
    /\ pc[c] = "idle"
    /\ pc' = [pc EXCEPT ![c] = "paint_exposure"]
    /\ UNCHANGED <<params, buffer, paramsLock, bufferLock, idx, snapshot,
                   local, passes, arg, exposure, pixbuf, contrib, entry,
                   before, histVars, sceneVars, passVars>>

\* let buffer = self.buffer.lock().unwrap();
\* assert_eq!(buffer.len(), self.area());
PaintLock(c) ==
    /\ pc[c] = "idle"
    /\ bufferLock = NoThread
    /\ IF Len(buffer) = Area
       THEN /\ bufferLock' = c
            /\ pc' = [pc EXCEPT ![c] = "paint_exposure"]
       ELSE /\ pc' = [pc EXCEPT ![c] = "panicked"]
            /\ UNCHANGED bufferLock
    /\ UNCHANGED <<params, buffer, paramsLock, idx, snapshot, local, passes,
                   arg, exposure, pixbuf, contrib, entry, before, histVars,
                   sceneVars, passVars>>

\* A paint that reads the frequency under the params lock while it holds
\* the buffer lock.
PaintExposureLockingParams(c) ==
    /\ pc[c] = "paint_exposure"
    /\ paramsLock = NoThread
    /\ exposure' = [exposure EXCEPT ![c] = GetExposure(buffer)]
    /\ pc' = [pc EXCEPT ![c] = "paint_pixel"]
    /\ UNCHANGED <<params, buffer, paramsLock, bufferLock, idx, snapshot,
                   local, passes, arg, pixbuf, contrib, entry, before,
                   histVars, sceneVars, passVars>>

\* let exposure = self.get_exposure(&buffer[..], self.width);
PaintExposure(c) ==
    /\ pc[c] = "paint_exposure"
    /\ exposure' = [exposure EXCEPT ![c] = GetExposure(buffer)]
    /\ pc' = [pc EXCEPT ![c] = "paint_pixel"]
    /\ UNCHANGED <<params, buffer, paramsLock, bufferLock, idx, snapshot,
                   local, passes, arg, pixbuf, contrib, entry, before,
                   histVars, sceneVars, passVars>>

\* A paint that normalises the shared buffer in place as it goes.
PaintPixelConsuming(c) ==
    /\ pc[c] = "paint_pixel"
    /\ pixbuf' = [pixbuf EXCEPT ![c][idx[c]] =
                     Gray(FSub(LogNorm(buffer[idx[c]]), exposure[c]))]
    /\ buffer' = [buffer EXCEPT ![idx[c]] = Zero]
    /\ AfterElement(c, "paint_pixel", "paint_unlock")
    /\ UNCHANGED <<params, paramsLock, bufferLock, snapshot, local, passes,
                   arg, exposure, contrib, entry, before, histVars,
                   sceneVars, passVars>>

\* pixbuf.put_pixel(x, y, r, g, b, a) for pixel i = y * width + x
PaintPixel(c) ==
    /\ pc[c] = "paint_pixel"
    /\ pixbuf' = [pixbuf EXCEPT ![c][idx[c]] =
                     Gray(FSub(LogNorm(buffer[idx[c]]), exposure[c]))]
    /\ AfterElement(c, "paint_pixel", "paint_unlock")
    /\ UNCHANGED <<params, buffer, paramsLock, bufferLock, snapshot, local,
                   passes, arg, exposure, contrib, entry, before, histVars,
                   sceneVars, passVars>>

\* The drop of buffer when paint returns.
PaintUnlock(c) ==
    /\ pc[c] = "paint_unlock"
    /\ bufferLock' = NoThread
    /\ exposure' = [exposure EXCEPT ![c] = NegInf]
    /\ pixbuf' = [pixbuf EXCEPT ![c] = BlankPixbuf]
    /\ pc' = [pc EXCEPT ![c] = "idle"]
    /\ UNCHANGED <<params, buffer, paramsLock, idx, snapshot, local, passes,
                   arg, contrib, entry, before, histVars, sceneVars, passVars>>

\* ================================================================= Scene
\* Lengths are integers in millimetres; a Vec3 is a triple.  Unit vectors
\* are modelled for directions parallel to an axis, which is what
\* Scene::new_example builds its faces from.

\* ---------------------------------------------------------------- bounds
\* Bounces sample_at walks (`for bounce in 0..30`).
MaxBounce == 3
\* Distances e in front of a face's origin that are tried, 1..MaxEps.
MaxEps == 2

VAdd(a, b) == <<a[1] + b[1], a[2] + b[2], a[3] + b[3]>>
VSub(a, b) == <<a[1] - b[1], a[2] - b[2], a[3] - b[3]>>
VScale(a, k) == <<a[1] * k, a[2] * k, a[3] * k>>
VNeg(a) == VScale(a, -1)
Dot(a, b) == a[1] * b[1] + a[2] * b[2] + a[3] * b[3]
Cross(a, b) == <<a[2] * b[3] - a[3] * b[2],
                 a[3] * b[1] - a[1] * b[3],
                 a[1] * b[2] - a[2] * b[1]>>
\* The Euclidean norm of a vector parallel to an axis.
Norm(a) == Abs(a[1]) + Abs(a[2]) + Abs(a[3])
Normalized(a) == <<a[1] \div Norm(a), a[2] \div Norm(a), a[3] \div Norm(a)>>

\* Source::new: direction is (aimed_at - position).normalized(), which is
\* not parallel to an axis; the source keeps the two points it is built from.
SourceNew(pos, aimed_at) == [position |-> pos, aimed_at |-> aimed_at]

\* Face::new
FaceNew(p1, p2, forward) ==
    [origin |-> p1,
     normal |-> Normalized(Cross(forward, VSub(p2, p1))),
     tangent |-> Normalized(VSub(p2, p1)),
     width |-> Norm(VSub(p2, p1))]

\* A reflect that subtracts the distance to the plane once.
ReflectOntoPlane(face, q) ==
    LET d == Dot(face.normal, VSub(q, face.origin))
    IN VSub(q, VScale(face.normal, d))

\* Face::reflect
Reflect(face, q) ==
    LET d == Dot(face.normal, VSub(q, face.origin))
    IN VSub(q, VScale(face.normal, d + d))

\* An is_facing that counts the plane itself as the front side.
IsFacingInclusive(face, q) == Dot(face.normal, VSub(q, face.origin)) >= 0

\* Face::is_facing
IsFacing(face, q) == Dot(face.normal, VSub(q, face.origin)) > 0

\* Scene::new_example
ExampleScene ==
    LET up == <<0, 0, 1>>
        side == <<0, 1, 0>>
        p0 == <<0, 0, 0>>
        p1 == <<8320, 0, 0>>
        p2 == <<8320, 3350, 0>>
        p3 == <<0, 3350, 0>>
        s1 == <<600, 300, 1000>>
        s2 == <<2200, 300, 1000>>
        listener == <<1400, 3000, 1000>>
        ceil_off == <<0, 0, 2800>>
    IN [sources |-> <<SourceNew(s1, listener), SourceNew(s2, listener)>>,
        faces |-> <<FaceNew(p0, p1, up),
                    FaceNew(p1, p2, up),
                    FaceNew(p2, p3, up),
                    FaceNew(p3, p0, up),
                    FaceNew(p0, p1, VNeg(side)),
                    FaceNew(VAdd(p0, ceil_off), VAdd(p1, ceil_off), side)>>]

Sources == ExampleScene.sources
Faces == ExampleScene.faces
SourceIdx == 1..Len(Sources)
FaceIdx == 1..Len(Faces)

\* The scenes sample_at is followed on: the example scene, and its floor
\* with and without its ceiling.
Scenes == {Faces, <<Faces[5], Faces[6]>>, <<Faces[5]>>}

\* render_one: Vec3::new(xm - 0.5, ym - 0.5, 1.0) with xm = x * 0.008.
RenderPosition(x, y) == <<x * 8 - 500, y * 8 - 500, 1000>>

\* The positions sample_at is called with: those of some pixels of
\* render_one, and points on and just in front of each face's plane.
PixelXs == {0, 63, 200}
PixelYs == {0, 63, 481}
Positions ==
    {RenderPosition(x, y) : x \in PixelXs, y \in PixelYs}
    \cup {Faces[f].origin : f \in FaceIdx}
    \cup {VAdd(Faces[f].origin, VScale(Faces[f].normal, e)) :
             f \in FaceIdx, e \in 1..MaxEps}
    \cup {<<1400, 0, 1000>>, <<8320, 300, 1000>>}

\* Rational numbers <<numerator, denominator>> in lowest terms stand for the
\* f32 weights.
Gcd(a, b) ==
    LET gcd[x \in Nat, y \in Nat] == IF y = 0 THEN x ELSE gcd[y, x % y]
    IN gcd[a, b]
Rat(n, d) == LET g == Gcd(Abs(n), Abs(d)) IN <<n \div g, d \div g>>
RatMul(a, b) == Rat(a[1] * b[1], a[2] * b[2])

\* |a| < |b|
RatAbsLess(a, b) ==
    LET g == Gcd(a[2], b[2])
    IN Abs(a[1]) * (b[2] \div g) < Abs(b[1]) * (a[2] \div g)

\* let reflectivity = -0.95;
Reflectivity == Rat(-95, 100)
\* A weight that follows the reflectivity alone.
FactorReflectivityOnly == Reflectivity
\* let factor = reflectivity * (self.faces.len() - 1) as f32;
Factor == RatMul(Reflectivity, Rat(Len(faces) - 1, 1))
\* let mut amplitude = 1.0 / 4096.0;
InitialAmplitude == Rat(1, 4096)

\* The Complex that sample_at returns is kept as the formal sum of its
\* terms m * amplitude, m = source.sample_at(frequency, p); Complex::zero()
\* is the empty sum.
ComplexZero == <<>>
Term(s, f, at, a) == [source |-> s, frequency |-> f, position |-> at,
                      amplitude |-> a]

\* =================================================================== Rng
\* A u64 is its eight bytes, least significant first, so that every sum and
\* product is computed exactly and its reduction modulo 2^64 is explicit.
ByteIdx == 1..8
ByteAt(x, i) == IF i \in ByteIdx THEN x[i] ELSE 0
\* The u64 whose byte i is f[i].
Tabulate(f) == <<f[1], f[2], f[3], f[4], f[5], f[6], f[7], f[8]>>
\* The u64 of a small natural number.
RECURSIVE Pow2(_)
Pow2(r) == IF r = 0 THEN 1 ELSE 2 * Pow2(r - 1)
U64(n) ==
    LET byte(i) == IF i <= 3 THEN (n \div Pow2(8 * (i - 1))) % 256 ELSE 0
    IN Tabulate([i \in ByteIdx |-> byte(i)])
MaxU64 == <<255, 255, 255, 255, 255, 255, 255, 255>>

\* Columns of naturals (least significant first) carried into bytes; the
\* result is as long as it takes to hold the whole value.
RECURSIVE Carried(_, _)
Carried(cols, carry) ==
    IF cols = <<>>
    THEN IF carry = 0 THEN <<>>
         ELSE <<carry % 256>> \o Carried(<<>>, carry \div 256)
    ELSE <<(Head(cols) + carry) % 256>>
            \o Carried(Tail(cols), (Head(cols) + carry) \div 256)

\* The exact sum and product, and what a u64 keeps of them.
ExactSum(x, y) ==
    LET column(i) == x[i] + y[i]
    IN Carried(Tabulate([k \in ByteIdx |-> column(k)]), 0)
RECURSIVE ColumnSum(_, _, _, _)
ColumnSum(x, y, k, i) ==
    IF i > 8 THEN 0
    ELSE ByteAt(x, i) * ByteAt(y, k + 1 - i) + ColumnSum(x, y, k, i + 1)
ExactProduct(x, y) ==
    LET column(k) == ColumnSum(x, y, k, 1)
    IN Carried(Tabulate([k \in ByteIdx |-> column(k)])
                  \o <<column(9), column(10), column(11), column(12),
                       column(13), column(14), column(15)>>, 0)
Low64(v) ==
    LET byte(i) == IF i <= Len(v) THEN v[i] ELSE 0
    IN Tabulate([i \in ByteIdx |-> byte(i)])
Exceeds64(v) == \E i \in 9..Len(v) : v[i] # 0

\* x + y and x * y on u64: the result when the operation wraps, and whether
\* it overflows (a build with overflow checks panics there).
Add(x, y) == Low64(ExactSum(x, y))
AddOverflows(x, y) == Exceeds64(ExactSum(x, y))
Mul(x, y) == Low64(ExactProduct(x, y))
MulOverflows(x, y) == Exceeds64(ExactProduct(x, y))

RECURSIVE XorNat(_, _)
XorNat(a, b) ==
    IF a = 0 THEN b
    ELSE IF b = 0 THEN a
    ELSE ((a + b) % 2) + 2 * XorNat(a \div 2, b \div 2)
\* x ^ y
Xor(x, y) ==
    LET byte(i) == XorNat(x[i], y[i])
    IN Tabulate([i \in ByteIdx |-> byte(i)])
\* x >> k and x << k, 0 <= k < 64: bits shifted out are dropped.
Shr(x, k) ==
    LET q == k \div 8
        r == k % 8
        byte(i) == (ByteAt(x, i + q) \div Pow2(r))
                   + (ByteAt(x, i + q + 1) % Pow2(r)) * Pow2(8 - r)
    IN Tabulate([i \in ByteIdx |-> byte(i)])
Shl(x, k) ==
    LET q == k \div 8
        r == k % 8
        byte(i) == ((ByteAt(x, i - q) * Pow2(r)) % 256)
                   + (ByteAt(x, i - q - 1) \div Pow2(8 - r))
    IN Tabulate([i \in ByteIdx |-> byte(i)])
\* x.rotate_left(k), 0 < k < 64
RotateLeft(x, k) ==
    LET high == Shl(x, k)
        low == Shr(x, 64 - k)
        byte(i) == high[i] + low[i]
    IN Tabulate([i \in ByteIdx |-> byte(i)])

\* 0x9e3779b97f4a7c15, 0xbf58476d1ce4e5b9 and 0x94d049bb133111eb
Golden == <<21, 124, 74, 127, 185, 121, 55, 158>>
Mix1 == <<185, 229, 228, 28, 109, 71, 88, 191>>
Mix2 == <<235, 17, 49, 19, 187, 73, 208, 148>>

\* splitmix64_next: the new state, the value returned, and whether one of
\* its `+=` and `*` overflows.
Splitmix64Next(state) ==
    LET s == Add(state, Golden)
        a == Xor(s, Shr(s, 30))
        z1 == Mul(a, Mix1)
        b == Xor(z1, Shr(z1, 27))
        z2 == Mul(b, Mix2)
    IN [state |-> s,
        value |-> Xor(z2, Shr(z2, 31)),
        overflow |-> \/ AddOverflows(state, Golden)
                     \/ MulOverflows(a, Mix1)
                     \/ MulOverflows(b, Mix2)]

\* xoshiro256pp_next: the new state, the value returned, and whether one of
\* its two `+` overflows.
Xoshiro256ppNext(state) ==
    LET sum == Add(state[1], state[4])
        t == Shl(state[2], 17)
        s2 == Xor(state[3], state[1])
        s3 == Xor(state[4], state[2])
        s1 == Xor(state[2], s2)
        s0 == Xor(state[1], s3)
    IN [state |-> <<s0, s1, Xor(s2, t), RotateLeft(s3, 45)>>,
        value |-> Add(RotateLeft(sum, 23), state[1]),
        overflow |-> \/ AddOverflows(state[1], state[4])
                     \/ AddOverflows(RotateLeft(sum, 23), state[1])]

\* Rng::new: the state is the first four values of splitmix64 from seed.
RngNew(s) ==
    LET n1 == Splitmix64Next(s)
        n2 == Splitmix64Next(n1.state)
        n3 == Splitmix64Next(n2.state)
        n4 == Splitmix64Next(n3.state)
    IN [state |-> <<n1.value, n2.value, n3.value, n4.value>>,
        overflow |-> n1.overflow \/ n2.overflow \/ n3.overflow \/ n4.overflow]

\* Rng::next
RngNext(state) == Xoshiro256ppNext(state)

\* Rng::index(slice): an index into a sequence of n elements, derived from
\* one call of next() (the value modulo n).
RECURSIVE Remainder(_, _, _)
Remainder(x, n, i) ==
    IF i > 8 THEN 0 ELSE (Remainder(x, n, i + 1) * 256 + x[i]) % n
Index(state, n) ==
    LET d == RngNext(state)
    IN [state |-> d.state, index |-> Remainder(d.value, n, 1) + 1]

\* Scene::sample_at as a function of the stream it draws from: the value it
\* returns and the state it leaves the stream in.
RECURSIVE DrawFace(_, _)
DrawFace(state, prev) ==
    LET d == Index(state, Len(faces))
    IN IF d.index # prev THEN d ELSE DrawFace(d.state, prev)

RECURSIVE Walk(_, _, _, _, _, _, _, _)
Walk(state, s, f, prev, q, a, n, sum) ==
    IF n = MaxBounce
    THEN [value |-> sum, state |-> state]
    ELSE LET d == DrawFace(state, prev)
         IN Walk(d.state, s, f, d.index, Reflect(faces[d.index], q),
                 RatMul(a, Factor), n + 1, Append(sum, Term(s, f, q, a)))

SceneSampleAt(state, f, q) ==
    IF \E k \in DOMAIN faces : ~IsFacing(faces[k], q)
    THEN [value |-> ComplexZero, state |-> state]
    ELSE LET d1 == Index(state, Len(Sources))
             d2 == Index(d1.state, Len(faces))
         IN Walk(d2.state, d1.index, f, d2.index, q, InitialAmplitude, 0,
                 ComplexZero)

\* ---------------------------------------------------------------- bounds
\* Calls of next() a run makes on its own.
MaxDraws == 3

\* The seeds run_render_loop is started with.
Seeds == {U64(0), U64(1), U64(42), MaxU64}
\* Two runs of the program from the same seed.
Runs == {1, 2}
\* The positions of the pixels a pass renders, in render_one's order: one
\* outside the room and two inside.
PassPositions == <<RenderPosition(0, 0), RenderPosition(63, 63),
                   RenderPosition(200, 481)>>

NoRng == [st |-> "unset", state |-> <<>>]
Panicked == [st |-> "panicked", state |-> <<>>]
Ready(state) == [st |-> "ready", state |-> state]

\* No run has been started.
PassIdle ==
    /\ seed = U64(0)
    /\ checks = FALSE
    /\ passFrequency = InitFrequency
    /\ rng = [r \in Runs |-> NoRng]
    /\ drawn = [r \in Runs |-> <<>>]
    /\ pass = [r \in Runs |-> <<>>]

\* No call of sample_at is followed.
SceneIdle ==
    /\ stage = "idle"
    /\ position = <<0, 0, 0>>
    /\ frequency = InitFrequency
    /\ si = 1
    /\ fi = 1
    /\ p = <<0, 0, 0>>
    /\ amplitude = InitialAmplitude
    /\ bounce = 0
    /\ z = ComplexZero
    /\ fi0 = 1
    /\ used = <<>>
    /\ faces = Faces
    /\ rejected = FALSE

\* Two runs about to start from the same seed with the same RenderParams,
\* in a build with or without overflow checks.
PassInit ==
    /\ RendererInit
    /\ SceneIdle
    /\ seed \in Seeds
    /\ checks \in BOOLEAN
    /\ passFrequency \in Frequencies
    /\ rng = [r \in Runs |-> NoRng]
    /\ drawn = [r \in Runs |-> <<>>]
    /\ pass = [r \in Runs |-> <<>>]

\* A run that mixes its own number into the seed.
RunRngNewSeededByRun(r) ==
    /\ rng[r].st = "unset"
    /\ LET n == RngNew(Add(seed, U64(r)))
       IN rng' = [rng EXCEPT ![r] = IF checks /\ n.overflow THEN Panicked
                                    ELSE Ready(n.state)]
    /\ UNCHANGED <<seed, checks, passFrequency, drawn, pass, vars, sceneVars>>

\* run_render_loop: let mut rng = Rng::new(seed); an overflowing `+` or `*`
\* panics in a build with overflow checks and wraps otherwise.
RunRngNew(r) ==
    /\ rng[r].st = "unset"
    /\ LET n == RngNew(seed)
       IN rng' = [rng EXCEPT ![r] = IF checks /\ n.overflow THEN Panicked
                                    ELSE Ready(n.state)]
    /\ UNCHANGED <<seed, checks, passFrequency, drawn, pass, vars, sceneVars>>

\* rng.next(), called on the fresh generator.
RunNext(r) ==
    /\ rng[r].st = "ready"
    /\ pass[r] = <<>>
    /\ Len(drawn[r]) < MaxDraws
    /\ LET d == RngNext(rng[r].state)
       IN IF checks /\ d.overflow
          THEN rng' = [rng EXCEPT ![r] = Panicked] /\ UNCHANGED drawn
          ELSE /\ rng' = [rng EXCEPT ![r] = Ready(d.state)]
               /\ drawn' = [drawn EXCEPT ![r] = Append(@, d.value)]
    /\ UNCHANGED <<seed, checks, passFrequency, pass, vars, sceneVars>>

\* The next pixel of the first render_one call:
\* buffer[i] = scene.sample_at(rng, params.frequency_hz, position)
RunRenderPixel(r) ==
    /\ rng[r].st = "ready"
    /\ drawn[r] = <<>>
    /\ Len(pass[r]) < Len(PassPositions)
    /\ LET d == SceneSampleAt(rng[r].state, passFrequency,
                              PassPositions[Len(pass[r]) + 1])
       IN /\ rng' = [rng EXCEPT ![r] = Ready(d.state)]
          /\ pass' = [pass EXCEPT ![r] = Append(@, d.value)]
    /\ UNCHANGED <<seed, checks, passFrequency, drawn, vars, sceneVars>>

PassNext ==
    \/ \E r \in Runs : RunRngNew(r)
    \/ \E r \in Runs : RunNext(r)
    \/ \E r \in Runs : RunRenderPixel(r)

\* The renderer after Renderer::new, and no call of sample_at.
Init ==
    /\ RendererInit
    /\ SceneIdle
    /\ PassIdle

\* A call of sample_at(rng, frequency, position) on a scene.
SceneInit ==
    /\ RendererInit
    /\ stage = "gate"
    /\ faces \in Scenes
    /\ position \in Positions
    /\ frequency \in Frequencies
    /\ si = 1
    /\ fi = 1
    /\ p = position
    /\ amplitude = InitialAmplitude
    /\ bounce = 0
    /\ z = ComplexZero
    /\ fi0 = 1
    /\ used = <<>>
    /\ rejected = FALSE
    /\ PassIdle

\* A gate that returns zero only when no face at all is facing.
SampleAtGateNoFaceFacing ==
    /\ stage = "gate"
    /\ stage' = IF \A f \in DOMAIN faces : ~IsFacing(faces[f], position)
                THEN "done" ELSE "pick_source"
    /\ z' = ComplexZero
    /\ UNCHANGED <<position, frequency, si, fi, p, amplitude, bounce, fi0,
                   used, faces, rejected, vars, passVars>>

\* for face in &self.faces { if !face.is_facing(position) { return zero } }
SampleAtGate ==
    /\ stage = "gate"
    /\ stage' = IF \E f \in DOMAIN faces : ~IsFacing(faces[f], position)
                THEN "done" ELSE "pick_source"
    /\ z' = ComplexZero
    /\ UNCHANGED <<position, frequency, si, fi, p, amplitude, bounce, fi0,
                   used, faces, rejected, vars, passVars>>

\* let si = rng.index(&self.sources[..]); z, p and amplitude are set up.
SampleAtPickSource ==
    /\ stage = "pick_source"
    /\ \E i \in SourceIdx : si' = i
    /\ z' = ComplexZero
    /\ p' = position
    /\ amplitude' = InitialAmplitude
    /\ stage' = "pick_face"
    /\ UNCHANGED <<position, frequency, fi, bounce, fi0, used, faces,
                   rejected, vars, passVars>>

\* let mut fi = rng.index(&self.faces[..]);
SampleAtPickFace ==
    /\ stage = "pick_face"
    /\ \E i \in DOMAIN faces : fi' = i /\ fi0' = i
    /\ used' = <<>>
    /\ bounce' = 0
    /\ stage' = "sample"
    /\ UNCHANGED <<position, frequency, si, p, amplitude, z, faces, rejected,
                   vars, passVars>>

\* The head of `for bounce in 0..30` and z = z + m * amplitude; after the
\* last bounce the call returns z.
SampleAtSample ==
    /\ stage = "sample"
    /\ IF bounce < MaxBounce
       THEN /\ z' = Append(z, Term(si, frequency, p, amplitude))
            /\ stage' = "draw"
            /\ rejected' = FALSE
       ELSE /\ z' = z
            /\ stage' = "done"
            /\ rejected' = rejected
    /\ UNCHANGED <<position, frequency, si, fi, p, amplitude, bounce, fi0,
                   used, faces, vars, passVars>>

\* A draw that takes the first index it gets.
SampleAtDrawAnyFace ==
    /\ stage = "draw"
    /\ \E next_fi \in DOMAIN faces : fi' = next_fi
    /\ stage' = "reflect"
    /\ UNCHANGED <<position, frequency, si, p, amplitude, bounce, z, fi0,
                   used, faces, rejected, vars, passVars>>

\* A draw loop without its break.
SampleAtDrawNeverBreaking ==
    /\ stage = "draw"
    /\ \E next_fi \in DOMAIN faces :
          /\ fi' = (IF next_fi # fi THEN next_fi ELSE fi)
          /\ stage' = "draw"
          /\ rejected' = (rejected \/ next_fi = fi)
    /\ UNCHANGED <<position, frequency, si, p, amplitude, bounce, z, fi0,
                   used, faces, vars, passVars>>

\* loop { let next_fi = rng.index(..);
\*        if next_fi != fi { fi = next_fi; break } }
SampleAtDraw ==
    /\ stage = "draw"
    /\ \E next_fi \in DOMAIN faces :
          IF next_fi # fi
          THEN fi' = next_fi /\ stage' = "reflect" /\ rejected' = rejected
          ELSE fi' = fi /\ stage' = "draw" /\ rejected' = TRUE
    /\ UNCHANGED <<position, frequency, si, p, amplitude, bounce, z, fi0,
                   used, faces, vars, passVars>>

\* p = face.reflect(p); amplitude *= factor;
SampleAtReflect ==
    /\ stage = "reflect"
    /\ p' = Reflect(faces[fi], p)
    /\ amplitude' = RatMul(amplitude, Factor)
    /\ bounce' = bounce + 1
    /\ used' = Append(used, fi)
    /\ stage' = "sample"
    /\ UNCHANGED <<position, frequency, si, fi, z, fi0, faces, rejected, vars,
                   passVars>>

SceneNext ==
    \/ SampleAtGate
    \/ SampleAtPickSource
    \/ SampleAtPickFace
    \/ SampleAtSample
    \/ SampleAtDraw
    \/ SampleAtReflect

\* ------------------------------------------------------------------ Next
WorkerStep(w) ==
    \/ LoopLockParams(w)
    \/ LoopSnapshot(w)
    \/ RenderOne(w)
    \/ AmLockParams(w)
    \/ AmCheck(w)
    \/ AmLockBuffer(w)
    \/ AmMerge(w)
    \/ AmUnlock(w)

SetFrequencyStep(c) ==
    \/ \E f \in Frequencies : SfLockParams(c, f)
    \/ SfStore(c)
    \/ ClearLock(c)
    \/ ClearElement(c)
    \/ ClearUnlock(c)
    \/ SfUnlock(c)

PaintStep(c) ==
    \/ PaintLock(c)
    \/ PaintExposure(c)
    \/ PaintPixel(c)
    \/ PaintUnlock(c)

Next ==
    \/ \E w \in Workers : LoopLockParams(w)
    \/ \E w \in Workers : LoopSnapshot(w)
    \/ \E w \in Workers : RenderOne(w)
    \/ \E w \in Workers : AmLockParams(w)
    \/ \E w \in Workers : AmCheck(w)
    \/ \E w \in Workers : AmLockBuffer(w)
    \/ \E w \in Workers : AmMerge(w)
    \/ \E w \in Workers : AmUnlock(w)
    \/ \E c \in Setters, f \in Frequencies : SfLockParams(c, f)
    \/ \E c \in Setters : SfStore(c)
    \/ \E c \in Setters : ClearLock(c)
    \/ \E c \in Setters : ClearElement(c)
    \/ \E c \in Setters : ClearUnlock(c)
    \/ \E c \in Setters : SfUnlock(c)
    \/ \E c \in Painters : PaintLock(c)
    \/ \E c \in Painters : PaintExposure(c)
    \/ \E c \in Painters : PaintPixel(c)
    \/ \E c \in Painters : PaintUnlock(c)

\* The renderer on its own: no call of Scene::sample_at is followed.
Spec == Init /\ [][Next]_allVars

\* The steps of set_frequency and of paint once the call has begun; when
\* they are called is left open.
SetFrequencyRuns(c) ==
    SfStore(c) \/ ClearLock(c) \/ ClearElement(c) \/ ClearUnlock(c)
        \/ SfUnlock(c)
PaintRuns(c) ==
    PaintExposure(c) \/ PaintPixel(c) \/ PaintUnlock(c)

\* Fair scheduling of the threads and fair lock acquisition: a thread whose
\* next step is possible again and again takes it, be it a step it can
\* always take or the acquisition of a lock that is free again and again.
\* paint never waits once it holds the buffer lock.
Fairness ==
    /\ \A w \in Workers : SF_allVars(WorkerStep(w))
    /\ \A c \in Setters : SF_allVars(SetFrequencyRuns(c))
    /\ \A c \in Painters : WF_allVars(PaintRuns(c))

\* The renderer under fair scheduling.
SpecFair == Init /\ [][Next]_allVars /\ Fairness

\* Scene::sample_at on its own, on inputs drawn from the bounded sets.
SpecScene == SceneInit /\ [][SceneNext]_allVars

\* Fair random draws: a draw loop that can draw an index other than the
\* previous one does so at some draw; the other steps are the call's own
\* and are taken.
SceneFairness ==
    /\ WF_allVars(SceneNext)
    /\ WF_allVars(SampleAtDraw /\ stage' = "reflect")

\* Scene::sample_at under fair random draws.
SpecSceneFair == SceneInit /\ [][SceneNext]_allVars /\ SceneFairness

\* The start of a worker, run twice from the same seed.
SpecPass == PassInit /\ [][PassNext]_allVars

\* ---------------------------------------------------------------- claims
\* The step thread t can take, and whether it took one.
ThreadStep(t) ==
    IF t \in Workers THEN WorkerStep(t)
    ELSE IF t \in Setters THEN SetFrequencyStep(t)
    ELSE PaintStep(t)

Moved(t) == pc'[t] # pc[t] \/ idx'[t] # idx[t]

\* C1: no stale pass is ever merged: whenever no thread holds the buffer
\* lock (and no set_frequency call is between its store and its clear, where
\* the buffer still awaits clearing), every contribution summed in the
\* shared buffer was rendered for the frequency currently stored in
\* RenderParams.
C1_NoStaleMerge ==
    (bufferLock = NoThread /\ paramsLock \notin Setters)
        => contrib \subseteq {params}

\* C2: the discard path of accumulate_move (the check finds the shared
\* RenderParams different from the pass's) changes no element of the shared
\* buffer and no element of the caller's local buffer, and returns without
\* taking the buffer lock.
C2_DiscardLeavesBuffers ==
    [][\A w \in Workers :
         (pc[w] = "am_check" /\ Moved(w) /\ params # snapshot[w])
            => /\ buffer' = buffer
               /\ local'[w] = local[w]
               /\ bufferLock' = bufferLock
               /\ bufferLock # w
               /\ pc'[w] = "loop"]_vars

\* A worker is back at the top of its loop with its local samples intact:
\* its last accumulate_move discarded them.
C2_Witness ==
    \E w \in Workers :
        /\ pc[w] = "loop"
        /\ local[w] # ZeroBuffer
        /\ snapshot[w] # params
        /\ buffer # ZeroBuffer

\* C3: when the check of accumulate_move passes, the merge sets every
\* shared[i] to the shared[i] it found plus local[i] and every local[i] to
\* zero, and no step of accumulate_move changes RenderParams.
C3_MergeAddsAndZeroes ==
    /\ [](\A w \in Workers :
            pc[w] = "am_unlock"
               => \A i \in Pixels :
                     /\ buffer[i] = entry[w][1][i] + entry[w][2][i]
                     /\ local[w][i] = Zero)
    /\ [][\A w \in Workers :
            (pc[w] \in {"am_lock_params", "am_check", "am_lock_buffer",
                        "am_merge", "am_unlock"} /\ Moved(w))
               => params' = params]_vars

\* A merge has run over a nonzero shared buffer with nonzero local samples.
C3_Witness ==
    \E w \in Workers :
        /\ pc[w] = "am_unlock"
        /\ \E i \in Pixels : entry[w][1][i] # Zero /\ entry[w][2][i] # Zero
        /\ snapshot[w] = params

\* C4: when the clear of set_frequency(f) is about to release the buffer
\* lock, RenderParams.frequency_hz = f and every element of the shared
\* buffer is zero.
C4_SetFrequencyStoresAndClears ==
    \A c \in Setters :
        pc[c] = "clear_unlock" => params = arg[c] /\ buffer = ZeroBuffer

\* set_frequency(f) with f the frequency already stored has cleared a
\* buffer that held nonzero sums.
C4_Witness ==
    \E c \in Setters :
        /\ pc[c] = "clear_unlock"
        /\ before[c].same
        /\ before[c].full
        /\ buffer = ZeroBuffer

\* C5: no deadlock.  The holder of the buffer lock can always take its next
\* step (it never waits for the params lock), and the holder of the params
\* lock either can take its next step or waits for the buffer lock, which
\* another thread holds.
C5_NoDeadlock ==
    \A t \in Threads :
        /\ bufferLock = t => ENABLED ThreadStep(t)
        /\ paramsLock = t =>
              \/ ENABLED ThreadStep(t)
              \/ bufferLock \notin {NoThread, t}

\* Both locks are contended: set_frequency holds the params lock and waits
\* for the buffer lock, which paint holds, while a worker waits for the
\* params lock.
C5_Witness ==
    /\ \E c \in Setters : pc[c] = "clear_lock" /\ paramsLock = c
    /\ \E c \in Painters : bufferLock = c
    /\ \E w \in Workers : pc[w] = "am_lock_params"

\* C6: a worker inside render_one holds neither lock; it holds the params
\* lock only to copy or compare RenderParams and the buffer lock only in the
\* merge of accumulate_move.
C6_NoLockWhileRendering ==
    \A w \in Workers :
        /\ pc[w] = "render" => paramsLock # w /\ bufferLock # w
        /\ paramsLock = w => pc[w] \in {"snapshot", "am_check"}
        /\ bufferLock = w => pc[w] \in {"am_merge", "am_unlock"}

\* A worker is inside render_one while other threads hold both locks.
C6_Witness ==
    \E w \in Workers :
        /\ pc[w] = "render"
        /\ paramsLock \notin {NoThread, w}
        /\ bufferLock \notin {NoThread, w}

\* C7: no step of paint changes an element of the shared buffer or
\* RenderParams, and paint never holds the params lock.
C7_PaintReadOnly ==
    /\ [][\A c \in Painters :
            Moved(c) => /\ buffer' = buffer
                        /\ params' = params
                        /\ paramsLock' = paramsLock]_vars
    /\ [](paramsLock \notin Painters)

\* paint has read a nonzero buffer while a worker waits to merge a pass.
C7_Witness ==
    \E c \in Painters :
        /\ pc[c] = "paint_unlock"
        /\ buffer # ZeroBuffer
        /\ pixbuf[c] # BlankPixbuf
        /\ \E w \in Workers : pc[w] = "am_lock_buffer"

\* C8: sample_at returns the zero Complex whenever position fails is_facing
\* for at least one face, whatever the frequency and the random draws.
C8_OutsideIsZero ==
    (stage = "done" /\ \E f \in DOMAIN faces : ~IsFacing(faces[f], position))
        => z = ComplexZero

\* sample_at has returned for a position that faces every face but one.
C8_Witness ==
    /\ stage = "done"
    /\ z = ComplexZero
    /\ Cardinality({f \in DOMAIN faces : ~IsFacing(faces[f], position)}) = 1

\* C9: reflect is an involution: for every face (each has a unit normal) and
\* every point p the walk reaches, reflect(reflect(p)) = p.
C9_ReflectInvolution ==
    \A f \in DOMAIN faces : Reflect(faces[f], Reflect(faces[f], p)) = p

\* The walk has reflected the point twice, and it lies on no face's plane.
C9_Witness ==
    /\ stage = "sample"
    /\ bounce = 2
    /\ p # position
    /\ \A f \in DOMAIN faces : Reflect(faces[f], p) # p

\* C10: is_facing excludes the plane: is_facing(origin) is false for every
\* face, is_facing(p) holds exactly when dot(normal, p - origin) > 0, and
\* origin + normal * e is facing for every e > 0.
C10_FacingExcludesPlane ==
    \A f \in DOMAIN faces :
        /\ ~IsFacing(faces[f], faces[f].origin)
        /\ IsFacing(faces[f], p)
              <=> Dot(faces[f].normal, VSub(p, faces[f].origin)) > 0
        /\ Dot(faces[f].normal, VSub(position, faces[f].origin)) = 0
              => (stage = "done" => z = ComplexZero)
        /\ \A e \in 1..MaxEps :
              IsFacing(faces[f],
                       VAdd(faces[f].origin, VScale(faces[f].normal, e)))

\* sample_at has returned zero for a point of the room's boundary that lies
\* on one face's plane and in front of all the others.
C10_Witness ==
    /\ stage = "done"
    /\ z = ComplexZero
    /\ faces = Faces
    /\ \E f \in DOMAIN faces :
          /\ Dot(faces[f].normal, VSub(position, faces[f].origin)) = 0
          /\ \A g \in DOMAIN faces \ {f} : IsFacing(faces[g], position)

C12_ConsecutiveFacesDiffer ==
    /\ \A k \in 1..(Len(used) - 1) : used[k] # used[k + 1]
    /\ used # <<>> => used[1] # fi0
    /\ stage = "reflect" =>
          fi # (IF used = <<>> THEN fi0 ELSE used[Len(used)])

\* A whole walk has come back to a face it had reflected across before.
C12_Witness ==
    /\ stage = "done"
    /\ Len(used) = MaxBounce
    /\ \E j, k \in 1..Len(used) : j + 1 < k /\ used[j] = used[k]
    /\ \E k \in 2..Len(used) : used[k] = fi0

\* C13 as stated: the weight of the sample taken after n + 1 bounces is
\* strictly smaller in magnitude than the weight of the sample taken after n
\* bounces.
C13_WeightDecays ==
    \A k \in 1..(Len(z) - 1) :
        RatAbsLess(z[k + 1].amplitude, z[k].amplitude)

\* C13: the weight of the first sample is 1/4096 and the weight of each
\* later sample is the weight before it times reflectivity * (F - 1), which
\* is -4.75 for the six faces of the example scene: the magnitude of the
\* weight strictly grows with depth, and only |reflectivity| is below 1.
C13_WeightGrows ==
    /\ z # ComplexZero => z[1].amplitude = InitialAmplitude
    /\ \A k \in 1..(Len(z) - 1) :
          /\ z[k + 1].amplitude = RatMul(z[k].amplitude, Factor)
          /\ faces = Faces => RatAbsLess(z[k].amplitude, z[k + 1].amplitude)
    /\ faces = Faces => Factor = Rat(-475, 100)
    /\ RatAbsLess(Reflectivity, Rat(1, 1))

\* A walk has taken all its samples.
C13_Witness ==
    /\ faces = Faces
    /\ stage = "done"
    /\ Len(z) = MaxBounce
    /\ Len(z) >= 3
    /\ RatAbsLess(z[1].amplitude, z[Len(z)].amplitude)

\* C14: every pass handed to accumulate_move is internally consistent: from
\* the call until the merge begins, every element of the worker's local
\* buffer was written by the render_one of the same iteration, for exactly
\* the snapshot that accumulate_move compares, also when the buffer still
\* held the samples of a discarded pass before that render_one.
C14_PassFreshlyRendered ==
    \A w \in Workers :
        pc[w] \in {"am_lock_params", "am_check", "am_lock_buffer"}
           => \A i \in Pixels : written[w][i] = snapshot[w]

\* accumulate_move is called with a pass rendered over the samples of a
\* discarded pass, for a frequency other than the discarded one.
C14_Witness ==
    \E w \in Workers :
        /\ pc[w] = "am_check"
        /\ stale[w]
        /\ snapshot[w] = params
        /\ snapshot[w] # InitFrequency
        /\ \E i \in Pixels : local[w][i] = Zero

\* C15: the size assertions never fire: the shared buffer and every
\* worker's local buffer have width * height elements in every reachable
\* state, and no thread ends in the panic of an assert_eq.
C15_SizesAgree ==
    /\ Len(buffer) = Area
    /\ \A w \in Workers : Len(local[w]) = Area
    /\ \A t \in Threads : pc[t] # "panicked"

\* After a set_frequency, a worker has passed both assertions of
\* accumulate_move and merges, while paint, past its own, waits to return.
C15_Witness ==
    /\ \E w \in Workers :
          pc[w] = "am_merge" /\ idx[w] = Area /\ snapshot[w] # InitFrequency
    /\ \E c \in Painters : pc[c] = "idle" /\ passes = MaxPasses

\* C16: splitmix64_next and xoshiro256pp_next are total: whatever the seed
\* and the build, no call made by Rng::new or next() aborts on an overflowing
\* addition or multiplication; each returns its value reduced modulo 2^64.
C16_NeverAbortsOnOverflow ==
    \A r \in Runs : rng[r] # Panicked

\* C17: merges, clears and paints are mutually atomic on the shared buffer:
\* each holds the buffer lock for its whole loop over the elements, so the
\* buffer paint reads (and any buffer seen with the lock free) is zero plus
\* the sum of the passes whose merge has completed since the last completed
\* clear, never a partly merged pass or a partly cleared buffer.
C17_PaintSeesWholePasses ==
    /\ \A c \in Painters :
          pc[c] \in {"paint_exposure", "paint_pixel", "paint_unlock"}
             => bufferLock = c /\ buffer = merged
    /\ \A w \in Workers :
          pc[w] \in {"am_merge", "am_unlock"} => bufferLock = w
    /\ \A c \in Setters :
          pc[c] \in {"clear", "clear_unlock"} => bufferLock = c
    /\ bufferLock = NoThread => buffer = merged

\* paint is reading the last element of a buffer that holds merged passes
\* while a worker waits for the buffer lock with a pass to merge.
C17_Witness ==
    \E c \in Painters :
        /\ pc[c] = "paint_pixel"
        /\ idx[c] = Area
        /\ buffer # ZeroBuffer
        /\ \E w \in Workers :
              pc[w] = "am_lock_buffer" /\ local[w] # ZeroBuffer

\* C18: set_frequency holds the params lock from its update until its clear
\* has finished (and on until it returns), so in between no worker copies
\* the new frequency or compares a pass with it: a pass whose staleness
\* check was made after the update is merged after the clear, and is not
\* erased by it.
C18_ParamsHeldThroughClear ==
    /\ \A c \in Setters :
          pc[c] \in {"clear_lock", "clear", "clear_unlock", "sf_unlock"}
             => /\ paramsLock = c
                /\ \A w \in Workers : pc[w] \notin {"snapshot", "am_check"}
    /\ late = {}

\* set_frequency is clearing a buffer of nonzero sums for a new frequency
\* while a worker waits for the params lock to compare its pass.
C18_Witness ==
    \E c \in Setters :
        /\ pc[c] = "clear"
        /\ before[c].full
        /\ ~before[c].same
        /\ \E w \in Workers :
              pc[w] = "am_lock_params" /\ local[w] # ZeroBuffer

Inside == \A f \in DOMAIN faces : IsFacing(faces[f], position)

C20_OneFaceLoops ==
    /\ stage = "draw"
    /\ Len(faces) = 1
    /\ rejected

====
